---- MODULE Spec2Model ----
(***************************************************************************)
(* State-machine model of the hazel layer/event dispatch core:             *)
(*   hazel/src/layer.rs    LayerStack (push/pop of layers and overlays)    *)
(*   hazel/src/context.rs  EventContext (attach/detach wrappers, exit)     *)
(*   hazel/src/lib.rs      Context (layer_setup, resumed, window_event,    *)
(*                         on_event: host hook, then the stack walk)       *)
(*                                                                         *)
(* A usize value is kept as an integer representative of its residue       *)
(* modulo 2^64: a negative representative r stands for 2^64 + r (the       *)
(* result of a wrapping subtraction below 0), so it is larger than every   *)
(* length the model can build.                                             *)
(***************************************************************************)
EXTENDS Integers, Sequences, FiniteSets, TLC

\* ---------------------------------------------------------------- bounds
\* Number of push calls (ids issued) explored on one LayerStack.
MaxPushes == 3

\* The Box<dyn Layer> objects: every push call moves a newly created box
\* (Box::new(..)) into the stack, so there are as many objects as pushes.
LayerObjs == 1..MaxPushes
\* "no layer" (Option::None of Option<Box<dyn Layer>>), "no id"
NoLayer == 0
NoId == -1

VARIABLES
    layer_stack,     \* Context.layer_stack: [layers, layer_insert, next_id]
    state,           \* Context.state, an Option: << >> (None) | << [config |-> [width, height]] >>
    application,     \* which Application the host supplied: "default" | "custom"
    overflow_checks, \* build profile, fixed by the first overflow that shows it:
                     \* "unobserved" | "on" (overflow panics) | "off" (overflow wraps)
    pc,              \* position of the program: "setup" | "loop" | "hook" | "walk" | "exited"
    event,           \* the Event being dispatched ([type |-> "None"] when none)
    walk,            \* index (1-based) of the next entry of the stack walk
    exit_requested,  \* the event loop has been asked to exit (ActiveEventLoop::exit,
                     \* or ControlFlow::Exit written through an EventContext)
    control_flow,    \* LayerContext.control_flow of the EventContext a host hook holds,
                     \* an Option: << >> (None) | << "Poll" >> | << "Exit" >>
    panicked,        \* the process has panicked (unwinding; nothing runs afterwards)
    attach_calls,    \* per layer object: number of on_attach calls so far
    detach_calls,    \* per layer object: number of on_detach calls so far
    event_calls,     \* layer objects that received on_event for `event`, in call order
    update_calls,    \* layer objects that received on_update for the last notification, in call order
    host_calls,      \* Application hooks invoked for `event`, in call order: [hook, event]
    handled,         \* the last on_event call of the walk returned true
    frame,           \* what the last notification did to the surface: the result of
                     \* get_current_texture ("None" when not called) and the numbers of
                     \* configure, request_redraw, get_current_texture, submit and present calls
    issued,          \* every id returned by a push, in call order: [id, region, layer]
    hook_saw,        \* the last on_attach / on_detach an EventContext made for the host hook
                     \* in progress: [hook, layer, layer_stack (the stack while the hook ran)]
    winit_event,     \* the notification last delivered, to window_event or to
                     \* Event::try_from ([kind |-> "None"] when none)
    converted,       \* what that call returned: Ok(event) | Err(error) ([ok |-> FALSE, error |-> "None"] when none)
    last             \* the operation performed by the last step: [op, id, layer, ret]

vars == << layer_stack, state, application, overflow_checks, pc, event, walk,
           exit_requested, control_flow, panicked, attach_calls, detach_calls,
           event_calls, update_calls, host_calls, handled, frame, issued, hook_saw,
           winit_event, converted, last >>

\* ------------------------------------------------------------ Vec helpers
\* Vec::insert(index, element), index 0-based. With index > len the call
\* panics before it touches the vector.
Vec_insert(v, index, element) ==
    IF index \in 0..Len(v)
    THEN SubSeq(v, 1, index) \o << element >> \o SubSeq(v, index + 1, Len(v))
    ELSE v

\* Vec::remove(index), index 0-based, 0 <= index < len
Vec_remove(v, index) ==
    SubSeq(v, 1, index) \o SubSeq(v, index + 2, Len(v))

\* Vec::push(element)
Vec_push(v, element) == Append(v, element)

\* Option<T>: None is the empty sequence, Some(x) the one-element sequence
None == << >>
Some(x) == << x >>
is_none(o) == Len(o) = 0
is_some(o) == Len(o) = 1

SetMin(S) == CHOOSE x \in S : \A y \in S : x <= y

\* ------------------------------------------------------------ LayerStack
\* LayerStack::new (Default): empty vector, layer_insert = 0, next_id = 0
LayerStack_new == [layers |-> << >>, layer_insert |-> 0, next_id |-> 0]

\* LayerStack::len
len(s) == Len(s.layers)

\* LayerStack::iter: the entries from index 0 upwards
iter(s) == s.layers

\* .iter().enumerate().find(|(_, it)| it.0 == layer_id): the first 0-based
\* index whose entry carries the id, or -1 for None
find(s, layer_id) ==
    LET hits == { i \in 1..Len(s.layers) : s.layers[i].id = layer_id }
    IN  IF hits = {} THEN -1 ELSE SetMin(hits) - 1

\* Vec::insert panics when the index is greater than the length; a wrapped
\* layer_insert (negative representative) is greater than every length.
push_layer_panics(s) == s.layer_insert < 0 \/ s.layer_insert > len(s)

\* LayerStack::push_layer: the stack after the call (the returned id is s.next_id)
push_layer(s, layer) ==
    [ layers       |-> Vec_insert(s.layers, s.layer_insert, [id |-> s.next_id, layer |-> layer]),
      layer_insert |-> s.layer_insert + 1,
      next_id      |-> s.next_id + 1 ]

\* LayerStack::push_overlay: the stack after the call (the returned id is s.next_id)
\* (variant that puts the overlay in front of every entry)
push_overlay_at_front(s, overlay) ==
    [s EXCEPT !.layers = Vec_insert(s.layers, 0, [id |-> s.next_id, layer |-> overlay]),
              !.next_id = s.next_id + 1]

\* (variant that forgets `self.next_id += 1`)
push_overlay_reusing_id(s, overlay) ==
    [ layers       |-> Vec_push(s.layers, [id |-> s.next_id, layer |-> overlay]),
      layer_insert |-> s.layer_insert,
      next_id      |-> s.next_id ]

push_overlay(s, overlay) ==
    [ layers       |-> Vec_push(s.layers, [id |-> s.next_id, layer |-> overlay]),
      layer_insert |-> s.layer_insert,
      next_id      |-> s.next_id + 1 ]

\* `self.layer_insert -= 1` overflows exactly when an entry was found and
\* layer_insert is 0
pop_layer_overflows(s, layer_id) == find(s, layer_id) # -1 /\ s.layer_insert = 0

\* (variant that moves the boundary even when no entry was found)
pop_layer_always_decrementing(s, layer_id, checked) ==
    LET index == find(s, layer_id)
    IN  IF index = -1
        THEN [s EXCEPT !.layer_insert = IF @ > 0 THEN @ - 1 ELSE @]
        ELSE [s EXCEPT !.layers = Vec_remove(@, index),
                       !.layer_insert = IF checked /\ @ = 0 THEN @ ELSE @ - 1]

\* LayerStack::pop_layer: the stack after the call. `checked` says whether the
\* build panics on overflow: the panic is raised inside tap(), after
\* Vec::remove has run and before layer_insert is written.
pop_layer(s, layer_id, checked) ==
    LET index == find(s, layer_id)
    IN  IF index = -1
        THEN s
        ELSE [s EXCEPT !.layers = Vec_remove(@, index),
                       !.layer_insert = IF checked /\ @ = 0 THEN @ ELSE @ - 1]

\* LayerStack::pop_overlay: the stack after the call
pop_overlay(s, layer_id) ==
    LET index == find(s, layer_id)
    IN  IF index = -1
        THEN s
        ELSE [s EXCEPT !.layers = Vec_remove(@, index)]

\* Option<Box<dyn Layer>> returned by pop_layer / pop_overlay
pop_result(s, layer_id) ==
    LET index == find(s, layer_id)
    IN  IF index = -1 THEN NoLayer ELSE s.layers[index + 1].layer


\* ------------------------------------------------------------ callers
\* The Box<dyn Layer> a caller moves into a push: a newly created object.
\* A box returned by a pop is dropped by the caller.
CanPush == Len(issued) < MaxPushes
new_layer == Len(issued) + 1

\* Ids a caller can hand to a pop: every id issued so far and the next,
\* never issued one.
KnownIds == 0..layer_stack.next_id

\* The builds a `-= 1` below zero can still show: a checked build panics, an
\* unchecked one wraps.
Builds == IF overflow_checks = "unobserved" THEN {"on", "off"} ELSE {overflow_checks}

NoEvent == [type |-> "None"]
NoHook == [hook |-> "None"]
NoFrame == [texture |-> "None", configure |-> 0, request_redraw |-> 0, acquire |-> 0, submit |-> 0, present |-> 0]
Op(op, id, layer, ret) == [op |-> op, id |-> id, layer |-> layer, ret |-> ret]

Running == ~panicked

hooks == << attach_calls, detach_calls >>
build == << application, overflow_checks >>
dispatch == << event, walk, event_calls, host_calls, handled, control_flow >>
render == << update_calls, frame >>
conversion == << winit_event, converted >>

\* ------------------------------------------------------------ Init
\* The state on entry to Context::new, right after LayerStack::new(): the
\* layer_setup callback is about to run on the empty stack.
Init ==
    /\ layer_stack = LayerStack_new
    /\ state = None
    /\ application \in {"default", "custom"}
    /\ overflow_checks = "unobserved"
    /\ pc = "setup"
    /\ event = NoEvent
    /\ walk = 0
    /\ exit_requested = FALSE
    /\ control_flow = None
    /\ panicked = FALSE
    /\ attach_calls = [l \in LayerObjs |-> 0]
    /\ detach_calls = [l \in LayerObjs |-> 0]
    /\ event_calls = << >>
    /\ update_calls = << >>
    /\ host_calls = << >>
    /\ handled = FALSE
    /\ frame = NoFrame
    /\ issued = << >>
    /\ hook_saw = NoHook
    /\ winit_event = [kind |-> "None"]
    /\ converted = [ok |-> FALSE, error |-> "None"]
    /\ last = Op("LayerStack::new", NoId, NoLayer, NoId)

\* -------------------------------------------- layer_setup(&mut layer_stack)
\* The callback receives the LayerStack itself and calls its methods directly
\* (sandbox main: context.push_layer(Box::new(..))); no hook is invoked.
InSetup == Running /\ pc = "setup"

Setup_push_layer ==
    /\ InSetup /\ CanPush
    /\ IF push_layer_panics(layer_stack)
       THEN /\ panicked' = TRUE
            /\ last' = Op("push_layer", NoId, new_layer, NoId)
            /\ UNCHANGED << layer_stack, issued >>
       ELSE /\ layer_stack' = push_layer(layer_stack, new_layer)
            /\ issued' = Append(issued, [id |-> layer_stack.next_id, region |-> "layer", layer |-> new_layer])
            /\ last' = Op("push_layer", NoId, new_layer, layer_stack.next_id)
            /\ UNCHANGED panicked
    /\ UNCHANGED << hook_saw, conversion, state, pc, exit_requested, build, hooks, dispatch, render >>

Setup_push_overlay ==
    /\ InSetup /\ CanPush
    /\ layer_stack' = push_overlay(layer_stack, new_layer)
    /\ issued' = Append(issued, [id |-> layer_stack.next_id, region |-> "overlay", layer |-> new_layer])
    /\ last' = Op("push_overlay", NoId, new_layer, layer_stack.next_id)
    /\ UNCHANGED << hook_saw, conversion, state, pc, exit_requested, panicked, build, hooks, dispatch, render >>

Setup_pop_layer(layer_id) ==
    /\ InSetup
    /\ layer_id \in KnownIds
    /\ IF pop_layer_overflows(layer_stack, layer_id)
       THEN \E b \in Builds :
               /\ overflow_checks' = b
               /\ panicked' = (b = "on")
               /\ layer_stack' = pop_layer(layer_stack, layer_id, b = "on")
       ELSE /\ layer_stack' = pop_layer(layer_stack, layer_id, FALSE)
            /\ UNCHANGED << overflow_checks, panicked >>
    /\ last' = Op("pop_layer", layer_id, NoLayer, pop_result(layer_stack, layer_id))
    /\ UNCHANGED << hook_saw, conversion, state, pc, exit_requested, application, hooks, dispatch, render, issued >>

Setup_pop_overlay(layer_id) ==
    /\ InSetup
    /\ layer_id \in KnownIds
    /\ layer_stack' = pop_overlay(layer_stack, layer_id)
    /\ last' = Op("pop_overlay", layer_id, NoLayer, pop_result(layer_stack, layer_id))
    /\ UNCHANGED << hook_saw, conversion, state, pc, exit_requested, panicked, build, hooks, dispatch, render, issued >>

\* Context::new returns: Context { application, layer_stack, state: None };
\* run() then enters the event loop.
Context_new ==
    /\ InSetup
    /\ pc' = "loop"
    /\ last' = Op("Context::new", NoId, NoLayer, NoId)
    /\ UNCHANGED << hook_saw, conversion, layer_stack, state, exit_requested, panicked, build, hooks, dispatch,
                    render, issued >>

\* ------------------------------------------------------------ notifications
\* Payload values the windowing collaborator delivers (small samples). A
\* logical_key is a winit Key: a named key, or Key::Unidentified for a key
\* the platform could not map.
Keys == {"Escape", "Unidentified"}
Repeats == {FALSE}
MouseButtons == {"Left"}
Deltas == { << 1, -1 >> }
Positions == { << 3, 4 >> }
Sizes == { << 800, 600 >>, << 640, 480 >> }
\* The windows resumed may create: inner size (physical pixels) and scale factor
Windows == { [inner_size |-> << 800, 600 >>, scale_factor |-> 1],
             [inner_size |-> << 640, 480 >>, scale_factor |-> 1],
             [inner_size |-> << 400, 300 >>, scale_factor |-> 2] }

\* hard-coded line pixel size of window_event's MouseWheel arm
line_scale == 2

\* `x as f32` of an f64: values up to 2^24 in magnitude are kept; between 2^24
\* and 2^25 an f32 holds the even numbers only and the cast rounds to the
\* nearest, a tie going to the multiple of 4 (even mantissa).
as_f32(x) ==
    LET a == IF x < 0 THEN -x ELSE x
        lo == (a \div 2) * 2
        r == IF a <= 16777216 \/ a = lo THEN a
             ELSE IF lo % 4 = 0 THEN lo ELSE lo + 2
    IN  IF x < 0 THEN -r ELSE r

\* winit WindowEvent values
WindowEvents ==
         { [kind |-> "CloseRequested"], [kind |-> "RedrawRequested"],
           [kind |-> "Focused"], [kind |-> "Moved"] }
    \cup { [kind |-> "KeyboardInput", state |-> s, logical_key |-> k, repeat |-> r] :
             s \in {"Pressed", "Released"}, k \in Keys, r \in Repeats }
    \cup { [kind |-> "MouseInput", state |-> s, button |-> b] :
             s \in {"Pressed", "Released"}, b \in MouseButtons }
    \cup { [kind |-> "MouseWheel", delta |-> u, x |-> d[1], y |-> d[2]] :
             u \in {"LineDelta", "PixelDelta"}, d \in Deltas }
    \cup { [kind |-> "CursorMoved", x |-> p[1], y |-> p[2]] : p \in Positions }
    \cup { [kind |-> "Resized", width |-> z[1], height |-> z[2]] : z \in Sizes }

\* The kinds window_event turns into an Event (every other kind but
\* RedrawRequested falls to `_ => return`)
Dispatched == { "CloseRequested", "KeyboardInput", "MouseInput", "MouseWheel",
                "CursorMoved", "Resized" }

\* window_event's MouseWheel arm, one coordinate: a LineDelta value is
\* multiplied by line_scale, a PixelDelta value is cast to f32.
\* (variant that leaves a LineDelta as it is, as Event::try_from does)
scroll_offset_unscaled(delta, v) == IF delta = "LineDelta" THEN v ELSE as_f32(v)

scroll_offset(delta, v) == IF delta = "LineDelta" THEN v * line_scale ELSE as_f32(v)

\* window_event's match, arms that yield an Event
to_event(w) ==
    CASE w.kind = "CloseRequested" -> [type |-> "WindowClose"]
      [] w.kind = "KeyboardInput" ->
            IF w.state = "Pressed"
            THEN [type |-> "KeyPressed", key |-> w.logical_key, is_repeat |-> w.repeat]
            ELSE [type |-> "KeyReleased", key |-> w.logical_key]
      [] w.kind = "MouseInput" ->
            IF w.state = "Pressed"
            THEN [type |-> "MouseButtonPressed", button |-> w.button]
            ELSE [type |-> "MouseButtonReleased", button |-> w.button]
      [] w.kind = "MouseWheel" ->
            [type |-> "MouseScrolled", x_offset |-> scroll_offset(w.delta, w.x),
                                       y_offset |-> scroll_offset(w.delta, w.y)]
      [] w.kind = "CursorMoved" -> [type |-> "MouseMoved", x |-> as_f32(w.x), y |-> as_f32(w.y)]
      [] w.kind = "Resized" -> [type |-> "WindowResize", width |-> w.width, height |-> w.height]

\* window_event's match for a notification other than RedrawRequested: the
\* Event it builds, or None for `_ => { return; }`
\* (variant whose catch-all arm reports a window close)
window_event_match_dispatching_all(w) ==
    IF w.kind \in Dispatched THEN Some(to_event(w)) ELSE Some([type |-> "WindowClose"])

window_event_match(w) ==
    IF w.kind \in Dispatched THEN Some(to_event(w)) ELSE None

\* Context::on_event's match: the Application hook called for each Event
hook_of(e) ==
    CASE e.type = "KeyPressed" -> "on_key_pressed"
      [] e.type = "KeyReleased" -> "on_key_released"
      [] e.type = "MouseButtonPressed" -> "on_mouse_button_pressed"
      [] e.type = "MouseButtonReleased" -> "on_mouse_button_released"
      [] e.type = "MouseMoved" -> "on_mouse_moved"
      [] e.type = "MouseScrolled" -> "on_mouse_scrolled"
      [] e.type = "WindowClose" -> "on_window_close"
      [] e.type = "WindowResize" -> "on_window_resize"

\* trait Application, default bodies: on_window_close calls event_loop.exit(),
\* every other hook is empty. TRUE when the default hook requests exit.
\* (variant whose on_window_close is empty too)
default_hook_never_exits(e) == FALSE

default_hook_exits(e) == e.type = "WindowClose"

\* ------------------------------------------------------------ event loop
InLoop == Running /\ pc = "loop" /\ ~exit_requested

stack_side == << layer_stack, hooks, issued >>

\* resumed, `let config = { .. }`: the default configuration for a frame of
\* (width as f64 * scale_factor) as u32 by (height as f64 * scale_factor) as u32,
\* width and height being the window's inner size. The products of the sampled
\* windows are whole and far below u32::MAX, where the cast is exact.
default_config(window) ==
    [width  |-> window.inner_size[1] * window.scale_factor,
     height |-> window.inner_size[2] * window.scale_factor]

\* ApplicationHandler::resumed: window, surface, device and configuration are
\* created and stored; the surface is configured with the default configuration.
resumed(window) ==
    /\ InLoop
    /\ window \in Windows
    /\ state' = Some([config |-> default_config(window)])
    /\ last' = Op("resumed", NoId, NoLayer, NoId)
    /\ UNCHANGED << hook_saw, conversion, stack_side, build, pc, exit_requested, panicked, dispatch, render >>

\* window_event, `if self.state.is_none() { return; }`
\* (variant without the early return: the notification is converted and offered
\* to the Application hook although no window state exists)
WindowEvent_no_state_converting(w) ==
    /\ InLoop
    /\ w \in WindowEvents
    /\ is_none(state)
    /\ event' = IF is_some(window_event_match(w)) THEN window_event_match(w)[1] ELSE NoEvent
    /\ host_calls' = IF is_some(window_event_match(w))
                     THEN << [hook |-> hook_of(event'), event |-> event'] >> ELSE << >>
    /\ last' = Op(w.kind, NoId, NoLayer, NoId)
    /\ winit_event' = w
    /\ UNCHANGED << hook_saw, converted, stack_side, state, build, pc, walk, exit_requested,
                    control_flow, panicked, event_calls, handled, render >>

WindowEvent_no_state(w) ==
    /\ InLoop
    /\ w \in WindowEvents
    /\ is_none(state)
    /\ last' = Op(w.kind, NoId, NoLayer, NoId)
    /\ winit_event' = w
    /\ UNCHANGED << hook_saw, converted, stack_side, state, build, pc, exit_requested, panicked, dispatch, render >>

\* window_event, `_ => { return; }`
WindowEvent_other(w) ==
    /\ InLoop
    /\ w \in WindowEvents
    /\ is_some(state)
    /\ w.kind # "RedrawRequested"
    /\ is_none(window_event_match(w))
    /\ event' = NoEvent
    /\ event_calls' = << >>
    /\ host_calls' = << >>
    /\ handled' = FALSE
    /\ update_calls' = << >>
    /\ frame' = NoFrame
    /\ last' = Op(w.kind, NoId, NoLayer, NoId)
    /\ winit_event' = w
    /\ UNCHANGED << hook_saw, converted, stack_side, state, build, pc, walk, exit_requested, control_flow, panicked >>

\* Outcomes of Surface::get_current_texture
SurfaceResults == {"Ok", "Timeout", "Outdated", "Lost", "OutOfMemory"}

\* ImGuiLayer::on_update renders by itself: get_current_texture, one render
\* pass, queue.submit, frame.present. What one call adds to the frame record.
ImGuiLayer_on_update(f) ==
    [f EXCEPT !.acquire = @ + 1, !.submit = @ + 1, !.present = @ + 1]

\* The frame record after the on_update calls `calls`, each layer taken to be
\* an ImGuiLayer (the only Layer of the sources whose on_update renders).
RECURSIVE after_updates(_, _)
after_updates(f, calls) ==
    IF calls = << >> THEN f ELSE after_updates(ImGuiLayer_on_update(f), Tail(calls))

\* The layers whose on_update the RedrawRequested arm calls, in call order:
\* the arm renders and returns without touching the layer stack.
\* (variant that updates every entry, last index first)
redraw_update_calls_every_entry(s) ==
    [i \in 1..len(s) |-> iter(s)[len(s) + 1 - i].layer]

redraw_update_calls(s) == << >>

\* window_event, RedrawRequested arm: acquire (expect: any error panics), one
\* render pass, submit, present, return. No layer hook is called.
\* (variant whose arm yields an app-render Event instead of returning, so that
\* self.on_event walks the stack with it)
WindowEvent_redraw_delivering(texture) ==
    /\ InLoop
    /\ texture \in SurfaceResults
    /\ is_some(state)
    /\ event' = IF texture = "Ok" THEN [type |-> "AppRender"] ELSE NoEvent
    /\ event_calls' = << >>
    /\ host_calls' = << >>
    /\ handled' = FALSE
    /\ update_calls' = << >>
    /\ IF texture = "Ok"
       THEN /\ frame' = [texture |-> texture, configure |-> 0, request_redraw |-> 0, acquire |-> 1,
                         submit |-> 1, present |-> 1]
            /\ pc' = IF len(layer_stack) = 0 THEN "loop" ELSE "walk"
            /\ walk' = 1
            /\ UNCHANGED panicked
       ELSE /\ frame' = [texture |-> texture, configure |-> 0, request_redraw |-> 0, acquire |-> 1, submit |-> 0, present |-> 0]
            /\ panicked' = TRUE
            /\ UNCHANGED << pc, walk >>
    /\ last' = Op("RedrawRequested", NoId, NoLayer, NoId)
    /\ winit_event' = [kind |-> "RedrawRequested"]
    /\ UNCHANGED << hook_saw, converted, stack_side, state, build, exit_requested, control_flow >>

WindowEvent_redraw(texture) ==
    /\ InLoop
    /\ texture \in SurfaceResults
    /\ is_some(state)
    /\ event' = NoEvent
    /\ event_calls' = << >>
    /\ host_calls' = << >>
    /\ handled' = FALSE
    /\ IF texture = "Ok"
       THEN /\ update_calls' = redraw_update_calls(layer_stack)
            /\ frame' = after_updates([texture |-> texture, configure |-> 0, request_redraw |-> 0, acquire |-> 1,
                                       submit |-> 1, present |-> 1], update_calls')
            /\ UNCHANGED panicked
       ELSE /\ update_calls' = << >>
            /\ frame' = [texture |-> texture, configure |-> 0, request_redraw |-> 0, acquire |-> 1, submit |-> 0, present |-> 0]
            /\ panicked' = TRUE
    /\ last' = Op("RedrawRequested", NoId, NoLayer, NoId)
    /\ winit_event' = [kind |-> "RedrawRequested"]
    /\ UNCHANGED << hook_saw, converted, stack_side, state, build, pc, walk, exit_requested, control_flow >>

\* EventContext::new(delta_time, application, layer_stack, control_flow): the
\* control_flow argument its caller may pass, None or the loop's ControlFlow
\* (the call itself is not part of the sources).
ControlFlowSinks == { None, Some("Poll") }

\* The position after the Application hook has returned: the walk
\* `for layer in &mut self.layer_stack` starts at the first entry, or the
\* dispatch is over when the stack is empty.
\* (variant in which the hook's invocation consumes the event)
after_hook_consuming(s) == "loop"
\* (variant in which a pending exit request ends the dispatch at once)
after_hook_stopping_on_exit(s) == IF len(s) = 0 \/ exit_requested THEN "loop" ELSE "walk"

after_hook(s) == IF len(s) = 0 THEN "loop" ELSE "walk"

\* window_event, Resized arm: `state.config.width = width; state.config.height
\* = height;`, the configuration handed to surface.configure.
\* (variant that leaves the stored configuration as it was)
resized_config_keeping(config, w) == config

resized_config(config, w) == [config EXCEPT !.width = w.width, !.height = w.height]

\* window_event, the arms that build an Event, followed by
\* self.on_event(event_loop, &event) up to the call of the Application hook.
\* The Resized arm first writes the new size into the surface configuration
\* and calls surface.configure with it.
WindowEvent_dispatch(w) ==
    /\ InLoop
    /\ w \in WindowEvents
    /\ is_some(state)
    /\ w.kind # "RedrawRequested"
    /\ is_some(window_event_match(w))
    /\ state' = IF w.kind = "Resized"
                THEN Some([state[1] EXCEPT !.config = resized_config(@, w)])
                ELSE state
    /\ event' = window_event_match(w)[1]
    /\ host_calls' = << [hook |-> hook_of(event'), event |-> event'] >>
    /\ event_calls' = << >>
    /\ handled' = FALSE
    /\ update_calls' = << >>
    /\ frame' = IF w.kind = "Resized"
                THEN [NoFrame EXCEPT !.configure = 1, !.request_redraw = 1]
                ELSE NoFrame
    /\ walk' = 1
    /\ IF application = "default"
       THEN /\ exit_requested' = default_hook_exits(event')
            /\ pc' = after_hook(layer_stack)
            /\ UNCHANGED control_flow
       ELSE /\ pc' = "hook"
            /\ control_flow' \in ControlFlowSinks
            /\ UNCHANGED exit_requested
    /\ last' = Op(w.kind, NoId, NoLayer, NoId)
    /\ winit_event' = w
    /\ UNCHANGED << hook_saw, converted, stack_side, build, panicked >>

\* ------------------------------------------------------------ EventContext
\* Layer::on_attach / Layer::on_detach invoked on one layer object (the hook
\* receives a LayerContext only, so it cannot reach the stack)
on_attach(calls, layer) == [calls EXCEPT ![layer] = @ + 1]
on_detach(calls, layer) == [calls EXCEPT ![layer] = @ + 1]

\* What an EventContext method works on: the borrowed stack and the hook
\* calls made so far.
Ctx == [layer_stack |-> layer_stack, attach_calls |-> attach_calls, detach_calls |-> detach_calls,
        hook_saw |-> hook_saw]

\* The record of one hook call made while the stack was s
Saw(hook, layer, s) == [hook |-> hook, layer |-> layer, layer_stack |-> s]

\* EventContext::push_layer: layer.on_attach(..); self.layer_stack.push_layer(layer)
\* (variant that pushes first and attaches the layer afterwards)
EventContext_push_layer_then_attach(c, layer) ==
    [c EXCEPT !.layer_stack = push_layer(c.layer_stack, layer),
              !.attach_calls = on_attach(c.attach_calls, layer),
              !.hook_saw = Saw("on_attach", layer, push_layer(c.layer_stack, layer))]

EventContext_push_layer(c, layer) ==
    [c EXCEPT !.attach_calls = on_attach(c.attach_calls, layer),
              !.hook_saw = Saw("on_attach", layer, c.layer_stack),
              !.layer_stack = push_layer(c.layer_stack, layer)]

\* EventContext::push_overlay: overlay.on_attach(..); self.layer_stack.push_overlay(overlay)
EventContext_push_overlay(c, overlay) ==
    [c EXCEPT !.attach_calls = on_attach(c.attach_calls, overlay),
              !.hook_saw = Saw("on_attach", overlay, c.layer_stack),
              !.layer_stack = push_overlay(c.layer_stack, overlay)]

\* EventContext::pop_layer(layer: Box<dyn Layer>) -> LayerId:
\* layer.on_detach(..); self.layer_stack.push_layer(layer)
EventContext_pop_layer(c, layer) ==
    [c EXCEPT !.detach_calls = on_detach(c.detach_calls, layer),
              !.hook_saw = Saw("on_detach", layer, c.layer_stack),
              !.layer_stack = push_layer(c.layer_stack, layer)]

\* EventContext::pop_overlay(overlay: Box<dyn Layer>) -> LayerId:
\* overlay.on_detach(..); self.layer_stack.push_overlay(overlay)
EventContext_pop_overlay(c, overlay) ==
    [c EXCEPT !.detach_calls = on_detach(c.detach_calls, overlay),
              !.hook_saw = Saw("on_detach", overlay, c.layer_stack),
              !.layer_stack = push_overlay(c.layer_stack, overlay)]

\* ------------------------------------------------- the Application hook
\* A host-supplied hook runs between the match of Context::on_event and the
\* stack walk. It may call any EventContext method, any number of times.
InHook == Running /\ pc = "hook"

\* The call `op` of an EventContext method that ends in LayerStack::push_layer
\* (the layer hook has already run when Vec::insert panics) or in
\* LayerStack::push_overlay; `after` is what the method leaves behind.
Call(op, region, after) ==
    /\ InHook /\ CanPush
    /\ attach_calls' = after.attach_calls
    /\ detach_calls' = after.detach_calls
    /\ hook_saw' = after.hook_saw
    /\ IF region = "layer" /\ push_layer_panics(layer_stack)
       THEN /\ panicked' = TRUE
            /\ last' = Op(op, NoId, new_layer, NoId)
            /\ UNCHANGED << layer_stack, issued >>
       ELSE /\ layer_stack' = after.layer_stack
            /\ issued' = Append(issued, [id |-> layer_stack.next_id, region |-> region, layer |-> new_layer])
            /\ last' = Op(op, NoId, new_layer, layer_stack.next_id)
            /\ UNCHANGED panicked
    /\ UNCHANGED << conversion, state, pc, exit_requested, build, dispatch, render >>

Hook_push_layer ==
    Call("EventContext::push_layer", "layer", EventContext_push_layer(Ctx, new_layer))

Hook_push_overlay ==
    Call("EventContext::push_overlay", "overlay", EventContext_push_overlay(Ctx, new_layer))

Hook_pop_layer ==
    Call("EventContext::pop_layer", "layer", EventContext_pop_layer(Ctx, new_layer))

Hook_pop_overlay ==
    Call("EventContext::pop_overlay", "overlay", EventContext_pop_overlay(Ctx, new_layer))

\* EventContext::exit:
\*   if let Some(ref mut control_flow) = self.layer_context.control_flow {
\*       **control_flow = ControlFlow::Exit; }
\* as a function of the Option it finds.
\* (variant that requests exit whether or not a sink is attached)
EventContext_exit_unconditionally(sink) == Some("Exit")

EventContext_exit(sink) == IF is_some(sink) THEN Some("Exit") ELSE sink

\* The hook calls EventContext::exit; a ControlFlow::Exit written into the
\* loop's control flow is the exit request.
Hook_exit ==
    /\ InHook
    /\ ~exit_requested
    /\ control_flow' = EventContext_exit(control_flow)
    /\ exit_requested' = (control_flow' = Some("Exit"))
    /\ last' = Op("EventContext::exit", NoId, NoLayer, NoId)
    /\ UNCHANGED << hook_saw, conversion, stack_side, state, build, pc, panicked, event, walk, event_calls,
                    host_calls, handled, render >>

\* The hook returns to Context::on_event; its EventContext is dropped.
Hook_return ==
    /\ InHook
    /\ pc' = after_hook(layer_stack)
    /\ control_flow' = None
    /\ hook_saw' = NoHook
    /\ last' = Op("hook returns", NoId, NoLayer, NoId)
    /\ UNCHANGED << conversion, stack_side, state, build, exit_requested, panicked, event, walk,
                    event_calls, host_calls, handled, render >>

\* ------------------------------------------------------------ the stack walk
\* for layer in &mut self.layer_stack { if layer.on_event(..) { break; } }
\* The position after the entry at `index` (1-based) returned `result`:
\* 0 when the loop is left.
\* (variant without the `break`)
next_entry_ignoring_result(s, index, result) ==
    IF index < len(s) THEN index + 1 ELSE 0

next_entry(s, index, result) ==
    IF result THEN 0
    ELSE IF index < len(s) THEN index + 1 ELSE 0

\* One iteration of the walk: the entry's on_event is called and returns `result`.
\* (variant in which on_event is handed the stack and the layer removes itself)
Layer_on_event_popping_itself(result) ==
    /\ Running /\ pc = "walk"
    /\ result \in BOOLEAN
    /\ LET entry == iter(layer_stack)[walk]
           popped == pop_overlay(layer_stack, entry.id)
           next == next_entry(popped, walk - 1, result)
       IN  /\ layer_stack' = popped
           /\ event_calls' = Append(event_calls, entry.layer)
           /\ handled' = result
           /\ walk' = next
           /\ pc' = IF next = 0 THEN "loop" ELSE "walk"
           /\ last' = Op("on_event", entry.id, entry.layer, IF result THEN 1 ELSE 0)
    /\ UNCHANGED << hook_saw, conversion, hooks, issued, state, build, event, exit_requested,
                    control_flow, panicked, host_calls, render >>

Layer_on_event(result) ==
    /\ Running /\ pc = "walk"
    /\ result \in BOOLEAN
    /\ LET entry == iter(layer_stack)[walk]
           next == next_entry(layer_stack, walk, result)
       IN  /\ event_calls' = Append(event_calls, entry.layer)
           /\ handled' = result
           /\ walk' = next
           /\ pc' = IF next = 0 THEN "loop" ELSE "walk"
           /\ last' = Op("on_event", entry.id, entry.layer, IF result THEN 1 ELSE 0)
    /\ UNCHANGED << hook_saw, conversion, stack_side, state, build, event, exit_requested, control_flow, panicked,
                    host_calls, render >>

\* run_app returns once exit was requested and the current callback is over
EventLoop_exit ==
    /\ Running /\ pc = "loop" /\ exit_requested
    /\ pc' = "exited"
    /\ last' = Op("run_app returns", NoId, NoLayer, NoId)
    /\ UNCHANGED << hook_saw, conversion, stack_side, state, build, exit_requested, panicked, dispatch, render >>

\* ------------------------------------------------- event.rs: Event::try_from
\* Payload samples of the winit (0.28) notifications. An f64 or f32 value is
\* represented by a whole number.
VirtualKeyCodes == { [enum |-> "VirtualKeyCode", name |-> n] : n \in {"Key1", "A", "Escape", "Space", "Cut"} }
WinitMouseButtons ==
         { [enum |-> "winit::MouseButton", name |-> n] : n \in {"Left", "Right", "Middle"} }
    \cup { [enum |-> "winit::MouseButton", name |-> "Other", button |-> 4] }
PhysicalSizes == { [width |-> w, height |-> h] : w \in {0, 640, 800, 1920}, h \in {0, 480, 600, 1080} }
WindowPositions == { [x |-> x, y |-> y] : x \in {-1, 0, 5}, y \in {-1, 0, 5} }
CursorPositions == { [x |-> x, y |-> y] : x \in {0, 3, 16777217, -16777219}, y \in {0, 4, 16777217} }
LineDeltas == { [x |-> x, y |-> y] : x \in {-1, 0, 1}, y \in {-1, 0, 1} }
PixelDeltas == { [x |-> x, y |-> y] : x \in {-16777217, 0, 30}, y \in {-30, 0, 16777219} }
ScaleFactors == { 1, 2, 16777217 }
Characters == { "a", "A", "\n" }

\* winit::event::WindowEvent
WinitWindowEvents ==
         { [kind |-> k] : k \in {"CloseRequested", "Destroyed", "CursorEntered", "CursorLeft",
                                 "HoveredFileCancelled", "ModifiersChanged", "Touch",
                                 "ThemeChanged", "Occluded"} }
    \cup { [kind |-> "Resized", size |-> z] : z \in PhysicalSizes }
    \cup { [kind |-> "ScaleFactorChanged", scale_factor |-> f] : f \in ScaleFactors }
    \cup { [kind |-> "Focused", is_focused |-> b] : b \in BOOLEAN }
    \cup { [kind |-> "Moved", position |-> p] : p \in WindowPositions }
    \cup { [kind |-> "KeyboardInput", state |-> s, virtual_keycode |-> k] :
             s \in {"Pressed", "Released"}, k \in {None} \cup { Some(v) : v \in VirtualKeyCodes } }
    \cup { [kind |-> "ReceivedCharacter", character |-> c] : c \in Characters }
    \cup { [kind |-> "MouseInput", state |-> s, button |-> b] :
             s \in {"Pressed", "Released"}, b \in WinitMouseButtons }
    \cup { [kind |-> "CursorMoved", position |-> p] : p \in CursorPositions }
    \cup { [kind |-> "MouseWheel", delta |-> "LineDelta", x |-> d.x, y |-> d.y] : d \in LineDeltas }
    \cup { [kind |-> "MouseWheel", delta |-> "PixelDelta", x |-> d.x, y |-> d.y] : d \in PixelDeltas }

\* winit::event::Event<()>
WinitEvents ==
         { [kind |-> k] : k \in {"NewEvents", "DeviceEvent", "UserEvent", "Suspended", "Resumed",
                                 "MainEventsCleared", "RedrawRequested", "RedrawEventsCleared",
                                 "LoopDestroyed"} }
    \cup { [kind |-> "WindowEvent", event |-> w] : w \in WinitWindowEvents }

\* impl From<VirtualKeyCode> for KeyCode: every variant goes to the KeyCode
\* variant of the same name
KeyCode_from(value) == [enum |-> "KeyCode", name |-> value.name]

\* impl From<winit::event::MouseButton> for MouseButton
MouseButton_from(value) ==
    IF value.name = "Other"
    THEN [enum |-> "MouseButton", name |-> "Other", button |-> value.button]
    ELSE [enum |-> "MouseButton", name |-> value.name]

\* Result<Event, crate::Error>, and the outcome of a call that panicked
Ok(e) == [ok |-> TRUE, value |-> e]
Err(e) == [ok |-> FALSE, error |-> e]
Panic == [ok |-> FALSE, error |-> "panic"]

\* The inner match of try_from, on the WindowEvent
try_from_window_event(w) ==
    CASE w.kind = "CloseRequested" -> Ok([type |-> "WindowClose"])
      [] w.kind = "Resized" ->
            Ok([type |-> "WindowResize", size |-> [width |-> w.size.width, height |-> w.size.height]])
      [] w.kind = "ScaleFactorChanged" ->
            Ok([type |-> "WindowScaleChange", scale |-> as_f32(w.scale_factor)])
      [] w.kind = "Focused" ->
            IF w.is_focused THEN Ok([type |-> "WindowFocus"]) ELSE Ok([type |-> "WindowLostFocus"])
      [] w.kind = "Moved" ->
            Ok([type |-> "WindowMoved", offset |-> [x |-> w.position.x, y |-> w.position.y]])
      [] w.kind = "KeyboardInput" /\ is_some(w.virtual_keycode) ->
            IF w.state = "Pressed"
            THEN Ok([type |-> "KeyPressed", key |-> KeyCode_from(w.virtual_keycode[1])])
            ELSE Ok([type |-> "KeyReleased", key |-> KeyCode_from(w.virtual_keycode[1])])
      [] w.kind = "ReceivedCharacter" -> Ok([type |-> "KeyTyped", character |-> w.character])
      [] w.kind = "MouseInput" ->
            IF w.state = "Pressed"
            THEN Ok([type |-> "MouseButtonPressed", button |-> MouseButton_from(w.button)])
            ELSE Ok([type |-> "MouseButtonReleased", button |-> MouseButton_from(w.button)])
      [] w.kind = "CursorMoved" ->
            Ok([type |-> "MouseMoved",
                position |-> [x |-> as_f32(w.position.x), y |-> as_f32(w.position.y)]])
      [] w.kind = "MouseWheel" ->
            IF w.delta = "LineDelta"
            THEN Ok([type |-> "MouseScrolled", offset |-> [x |-> w.x, y |-> w.y]])
            ELSE Ok([type |-> "MouseScrolled", offset |-> [x |-> as_f32(w.x), y |-> as_f32(w.y)]])
      [] OTHER -> Err("Event")

\* (variant that unwraps the key code of a KeyboardInput)
try_from_unwrapping_keycode(e) ==
    IF e.kind = "WindowEvent"
    THEN IF e.event.kind = "KeyboardInput" /\ is_none(e.event.virtual_keycode)
         THEN Panic
         ELSE try_from_window_event(e.event)
    ELSE Err("Event")

\* impl TryFrom<WinitEvent<'_, ()>> for Event
try_from(e) ==
    IF e.kind = "WindowEvent" THEN try_from_window_event(e.event) ELSE Err("Event")

\* One call Event::try_from(e)
Event_try_from(e) ==
    /\ e \in WinitEvents
    /\ winit_event' = e
    /\ converted' = try_from(e)
    /\ UNCHANGED << hook_saw, stack_side, state, build, pc, exit_requested, panicked, dispatch, render, last >>

\* ------------------------------------------------------------ specification
Next ==
    \/ Setup_push_layer
    \/ Setup_push_overlay
    \/ \E id \in 0..MaxPushes : Setup_pop_layer(id)
    \/ \E id \in 0..MaxPushes : Setup_pop_overlay(id)
    \/ Context_new
    \/ \E window \in Windows : resumed(window)
    \/ \E w \in WindowEvents : WindowEvent_no_state(w)
    \/ \E w \in WindowEvents : WindowEvent_other(w)
    \/ \E r \in SurfaceResults : WindowEvent_redraw(r)
    \/ \E w \in WindowEvents : WindowEvent_dispatch(w)
    \/ Hook_push_layer
    \/ Hook_push_overlay
    \/ Hook_pop_layer
    \/ Hook_pop_overlay
    \/ Hook_exit
    \/ Hook_return
    \/ \E result \in BOOLEAN : Layer_on_event(result)
    \/ EventLoop_exit

Spec == Init /\ [][Next]_vars

\* Event::try_from on its own: nothing in lib.rs calls it (window_event has
\* its own match), so it is applied to every notification in turn.
TryFromNext == \E e \in WinitEvents : Event_try_from(e)

TryFromSpec == Init /\ [][TryFromNext]_vars


\* ------------------------------------------------------------ properties
Range(q) == { q[i] : i \in 1..Len(q) }
Count(q, x) == Cardinality({ i \in 1..Len(q) : q[i] = x })

\* The layer object l was moved in by the l-th push call.
region_of(l) == issued[l].region

\* A dispatch has run to its end and its record is still in place.
DispatchDone == pc \in {"loop", "exited"} /\ event.type # "None"

\* The stack's layer objects, from index 0 upwards
StackLayers == [i \in 1..len(layer_stack) |-> iter(layer_stack)[i].layer]

\* a is to be visited before b: an overlay before a regular layer, and within
\* a region the one pushed later first.
VisitedBefore(a, b) ==
    \/ region_of(a) = "overlay" /\ region_of(b) = "layer"
    \/ region_of(a) = region_of(b) /\ a > b

C2_ShortCircuit ==
    (pc \in {"walk", "loop", "exited"} /\ event.type # "None") =>
        /\ Len(event_calls) <= len(layer_stack)
        /\ \A i \in 1..len(layer_stack) :
               Count(event_calls, StackLayers[i]) = IF i <= Len(event_calls) THEN 1 ELSE 0
        /\ pc = "walk" => (~handled /\ Len(event_calls) = walk - 1)
        /\ (DispatchDone /\ ~handled) => Len(event_calls) = len(layer_stack)

\* Witness of C2: the second of three entries returned true; the first two
\* were called, the third was not.
C2_Witness ==
    /\ DispatchDone /\ handled
    /\ Len(event_calls) = 2
    /\ len(layer_stack) = 3

\* C3: layer_insert equals the number of entries in the stack that were
\* inserted by push_layer.
C3_BoundaryCountsLayers ==
    ~panicked =>
        layer_stack.layer_insert =
            Cardinality({ i \in 1..len(layer_stack) : region_of(StackLayers[i]) = "layer" })

\* C4: the ids returned by successive pushes are strictly increasing in call
\* order, and no two entries of the stack share an id.
C4_IdsStrictlyIncreasing ==
    /\ \A i, j \in 1..Len(issued) : i < j => issued[i].id < issued[j].id
    /\ \A i, j \in 1..len(layer_stack) :
           i # j => layer_stack.layers[i].id # layer_stack.layers[j].id

\* Witness of C4: a push of either kind has returned after an earlier id was
\* popped, with three ids issued in all.
C4_Witness ==
    /\ last.op \in {"push_layer", "push_overlay"} /\ last.ret # NoId
    /\ Len(issued) = 3
    /\ \E i \in 1..2 : find(layer_stack, issued[i].id) = -1
    /\ \E i, j \in 1..3 : issued[i].region # issued[j].region

\* C5: pop_layer with an id that is not in the stack returns None and leaves
\* the entries, layer_insert and next_id as they were.
C5_PopLayerAbsentId ==
    [][ (last'.op = "pop_layer" /\ find(layer_stack, last'.id) = -1)
            => (last'.ret = NoLayer /\ layer_stack' = layer_stack /\ ~panicked') ]_vars

\* Witness of C5: pop_layer has returned None on a stack that holds a regular
\* layer and an overlay.
C5_Witness ==
    /\ last.op = "pop_layer" /\ last.ret = NoLayer
    /\ layer_stack.layer_insert > 0
    /\ len(layer_stack) > layer_stack.layer_insert

\* C6: every layer that has received on_event or on_update had received
\* on_attach exactly once before.
C6_AttachedBeforeUse ==
    \A l \in Range(event_calls) \cup Range(update_calls) : attach_calls[l] = 1

\* C7: no layer receives on_event or on_update after its on_detach.
C7_NoHookAfterDetach ==
    \A l \in Range(event_calls) \cup Range(update_calls) : detach_calls[l] = 0

\* C8: when EventContext::pop_layer / pop_overlay returns, the stack has one
\* entry fewer, the targeted layer is not in it, and its on_detach ran exactly once.
C8_ContextPopRemoves ==
    [][ (last'.op \in {"EventContext::pop_layer", "EventContext::pop_overlay"} /\ ~panicked')
            => /\ len(layer_stack') = len(layer_stack) - 1
               /\ \A i \in 1..len(layer_stack') : layer_stack'.layers[i].layer # last'.layer
               /\ detach_calls' = on_detach(detach_calls, last'.layer) ]_vars

\* C9: when EventContext::push_layer / push_overlay returns, the pushed
\* layer's on_attach ran exactly once during the call and the layer is in the
\* stack under the returned id, below the boundary layer_insert for
\* push_layer and at or above it for push_overlay.
C9_ContextPushAttaches ==
    [][ (last'.op \in {"EventContext::push_layer", "EventContext::push_overlay"} /\ ~panicked')
            => /\ attach_calls' = on_attach(attach_calls, last'.layer)
               /\ detach_calls' = detach_calls
               /\ find(layer_stack', last'.ret) # -1
               /\ pop_result(layer_stack', last'.ret) = last'.layer
               /\ Count(StackLayers', last'.layer) = 1
               /\ IF last'.op = "EventContext::push_layer"
                  THEN find(layer_stack', last'.ret) < layer_stack'.layer_insert
                  ELSE find(layer_stack', last'.ret) >= layer_stack'.layer_insert ]_vars

\* The order the glossary calls dispatch order: newest overlay first, oldest
\* regular layer last (the stack from its last index down to index 0).
BackToFront == [i \in 1..len(layer_stack) |-> StackLayers[len(layer_stack) + 1 - i]]

\* C10: on a redraw tick, after the render path has run, every entry of the
\* stack has received exactly one on_update call, newest overlay first.
C10_RedrawUpdatesEveryEntry ==
    (last.op = "RedrawRequested" /\ is_some(state) /\ ~panicked) =>
        /\ frame.present = 1
        /\ update_calls = BackToFront

C13_DefaultHooks ==
    [][ (application = "default" /\ pc = "loop" /\ is_some(state))
            => /\ last'.op = "CloseRequested" => (exit_requested' /\ ~exit_requested)
               /\ last'.op = "Resized" =>
                     /\ ~exit_requested'
                     /\ layer_stack' = layer_stack
                     /\ hooks' = hooks
                     /\ ~panicked' ]_vars

\* Witness of C13: the default on_window_close has requested exit and the
\* event is on its way through a stack of two entries.
C13_Witness ==
    /\ application = "default" /\ last.op = "CloseRequested" /\ is_some(state)
    /\ exit_requested /\ pc = "walk" /\ len(layer_stack) = 2

\* C14: EventContext::exit called while control_flow is None changes nothing:
\* no exit is requested and the layer stack, the layers' hook records, the
\* surface state and the position of the program stay as they were; called
\* with a sink attached it sets the control flow to Exit.
C14_ExitNeedsSink ==
    [][ last'.op = "EventContext::exit"
            => IF is_none(control_flow)
               THEN /\ control_flow' = None
                    /\ exit_requested' = exit_requested
                    /\ layer_stack' = layer_stack
                    /\ hooks' = hooks
                    /\ state' = state
                    /\ pc' = pc /\ ~panicked'
               ELSE /\ control_flow' = Some("Exit")
                    /\ exit_requested' ]_vars

\* Witness of C14: exit was called by a hook whose EventContext has no sink,
\* on a stack with entries; no exit request is pending.
C14_Witness ==
    /\ last.op = "EventContext::exit" /\ is_none(control_flow)
    /\ pc = "hook" /\ ~exit_requested
    /\ len(layer_stack) > 0

\* C15: an exit request is not preemptive. Once exit is requested during the
\* dispatch of an event, the hook's return still starts the stack walk, the
\* walk still goes on until an entry returns true or the last entry was
\* called, and run_app returns only from the loop, between two notifications;
\* no further notification is processed then.
C15_ExitNotPreemptive ==
    [][ exit_requested' =>
          /\ (pc = "hook" /\ pc' # "hook") =>
                 pc' = IF len(layer_stack') = 0 THEN "loop" ELSE "walk"
          /\ pc = "walk" =>
                 \/ pc' = "walk" /\ ~handled' /\ walk' = walk + 1
                 \/ pc' = "loop" /\ (handled' \/ walk = len(layer_stack))
          /\ pc' = "exited" => pc = "loop"
          /\ (pc = "loop" /\ exit_requested) => pc' = "exited" ]_vars

\* Witness of C15: exit was requested while a WindowClose was dispatched, the
\* event still went through all three entries, and the loop has ended since.
C15_Witness ==
    /\ pc = "exited" /\ event.type = "WindowClose" /\ ~handled
    /\ Len(event_calls) = 3 /\ event_calls = StackLayers

\* The variants of enum Event (event.rs)
EventTypes == { "WindowClose", "WindowResize", "WindowFocus", "WindowLostFocus", "WindowMoved",
                "WindowScaleChange", "AppTick", "AppUpdate", "AppRender", "KeyPressed",
                "KeyReleased", "KeyTyped", "MouseButtonPressed", "MouseButtonReleased",
                "MouseMoved", "MouseScrolled" }

\* C16: for every notification given to it, the conversion returns either
\* Ok with exactly one Event or the unsupported outcome Err(Error::Event); it
\* never panics and never returns anything else.
C16_ConversionTotal ==
    winit_event.kind # "None" =>
        \/ /\ converted.ok
           /\ DOMAIN converted = {"ok", "value"}
           /\ converted.value.type \in EventTypes
        \/ converted = Err("Event")

\* Witness of C16: a KeyboardInput without a virtual key code was converted;
\* the outcome is the unsupported error.
C16_Witness ==
    /\ winit_event.kind = "WindowEvent" /\ winit_event.event.kind = "KeyboardInput"
    /\ is_none(winit_event.event.virtual_keycode)
    /\ converted = Err("Event")

\* The notification kinds window_event has no arm for
UnsupportedKinds == { w.kind : w \in WindowEvents } \ (Dispatched \cup {"RedrawRequested"})

\* C17: a notification whose conversion fails is dropped silently: no
\* Application hook and no layer hook runs for it, the layer stack is
\* unchanged, nothing panics, and the loop is ready for the next notification.
C17_UnsupportedDropped ==
    [][ (pc = "loop" /\ last'.op \in UnsupportedKinds)
            => /\ host_calls' = << >> /\ event_calls' = << >> /\ update_calls' = << >>
               /\ hooks' = hooks
               /\ layer_stack' = layer_stack
               /\ exit_requested' = exit_requested
               /\ pc' = "loop" /\ ~panicked' ]_vars

\* Witness of C17: a Focused notification was dropped in a running loop whose
\* stack holds two entries.
C17_Witness ==
    /\ last.op = "Focused" /\ is_some(state)
    /\ pc = "loop" /\ ~exit_requested /\ ~panicked
    /\ host_calls = << >> /\ event = NoEvent
    /\ len(layer_stack) = 2

\* C18: a failure to acquire the frame other than OutOfMemory never ends the
\* loop: the frame is not submitted and not presented, on Lost the surface is
\* configured again (with the stored configuration), nothing panics and the
\* loop is ready for the next notification.
C18_AcquireFailureNotFatal ==
    (last.op = "RedrawRequested" /\ frame.texture \in {"Timeout", "Outdated", "Lost"}) =>
        /\ ~panicked /\ pc = "loop"
        /\ frame.submit = 0 /\ frame.present = 0
        /\ frame.texture = "Lost" => frame.configure = 1

\* C19: LayerStack::push_layer returns with the new entry at the index that
\* layer_insert had before the call, which is immediately after the last
\* regular layer and before the first overlay; layer_insert has grown by
\* exactly one and the entries that were present keep their relative order.
C19_PushLayerAtBoundary ==
    [][ last'.op = "push_layer"
            => LET index == layer_stack.layer_insert
               IN  /\ ~panicked'
                   /\ find(layer_stack', last'.ret) = index
                   /\ layer_stack'.layers[index + 1].layer = last'.layer
                   /\ layer_stack'.layer_insert = index + 1
                   /\ Vec_remove(layer_stack'.layers, index) = layer_stack.layers
                   /\ \A i \in 1..len(layer_stack') :
                          /\ i < index + 1 => issued'[StackLayers'[i]].region = "layer"
                          /\ i > index + 1 => issued'[StackLayers'[i]].region = "overlay" ]_vars

\* C20: LayerStack::push_overlay returns with the new entry at the very end
\* of the sequence (after every entry, so after all overlays), with
\* layer_insert unchanged and every entry that was present at the position
\* it had.
C20_PushOverlayAtEnd ==
    [][ last'.op = "push_overlay"
            => /\ ~panicked'
               /\ len(layer_stack') = len(layer_stack) + 1
               /\ find(layer_stack', last'.ret) = len(layer_stack)
               /\ layer_stack'.layers[len(layer_stack')].layer = last'.layer
               /\ layer_stack'.layer_insert = layer_stack.layer_insert
               /\ \A i \in 1..len(layer_stack) : layer_stack'.layers[i] = layer_stack.layers[i] ]_vars

\* Witness of C20: push_overlay has returned on a stack that already held a
\* regular layer and an overlay.
C20_Witness ==
    /\ last.op = "push_overlay" /\ last.ret # NoId
    /\ len(layer_stack) = 3 /\ layer_stack.layer_insert = 1
    /\ StackLayers[3] = last.layer
    /\ region_of(StackLayers[1]) = "layer" /\ region_of(StackLayers[2]) = "overlay"

\* The region of the entry that holds layer_id ("none" when no entry does)
region_of_id(s, layer_id) ==
    IF find(s, layer_id) = -1 THEN "none" ELSE region_of(pop_result(s, layer_id))

\* C21: the pop operations respect regions. pop_layer(id) removes an entry
\* only when id belongs to an entry pushed by push_layer, and then decrements
\* layer_insert by one; pop_overlay(id) removes an entry only when id belongs
\* to an entry pushed by push_overlay, and leaves layer_insert alone; given
\* an id of the other region each returns None and changes nothing.
C21_PopsRespectRegions ==
    [][ /\ last'.op = "pop_layer" =>
              IF region_of_id(layer_stack, last'.id) = "layer"
              THEN /\ last'.ret = pop_result(layer_stack, last'.id)
                   /\ len(layer_stack') = len(layer_stack) - 1
                   /\ layer_stack'.layer_insert = layer_stack.layer_insert - 1
              ELSE last'.ret = NoLayer /\ layer_stack' = layer_stack /\ ~panicked'
        /\ last'.op = "pop_overlay" =>
              IF region_of_id(layer_stack, last'.id) = "overlay"
              THEN /\ last'.ret = pop_result(layer_stack, last'.id)
                   /\ len(layer_stack') = len(layer_stack) - 1
                   /\ layer_stack'.layer_insert = layer_stack.layer_insert
              ELSE last'.ret = NoLayer /\ layer_stack' = layer_stack /\ ~panicked' ]_vars

\* C22: the stack is partitioned into two contiguous regions: every entry
\* inserted by push_layer sits at a lower index than every entry inserted by
\* push_overlay, and within a region the entries appear in the order they
\* were pushed (a layer object's number is the number of its push call).
C22_TwoContiguousRegions ==
    \A i, j \in 1..len(layer_stack) :
        i < j =>
            /\ region_of(StackLayers[i]) = "overlay" => region_of(StackLayers[j]) = "overlay"
            /\ region_of(StackLayers[i]) = region_of(StackLayers[j]) => StackLayers[i] < StackLayers[j]

\* push_layer(layer) followed by pop_layer of the returned id, from the stack
\* s: the push returns, the pop gives the pushed layer back, entries and
\* layer_insert are those of s with only next_id advanced, and a second pop
\* of the same id returns None and changes nothing.
LayerRoundTrip(s, layer) ==
    /\ ~push_layer_panics(s)
    /\ LET pushed == push_layer(s, layer)
           popped == pop_layer(pushed, s.next_id, TRUE)
       IN  /\ ~pop_layer_overflows(pushed, s.next_id)
           /\ pop_result(pushed, s.next_id) = layer
           /\ popped = [s EXCEPT !.next_id = @ + 1]
           /\ pop_result(popped, s.next_id) = NoLayer
           /\ pop_layer(popped, s.next_id, TRUE) = popped

\* The same for push_overlay followed by pop_overlay
OverlayRoundTrip(s, overlay) ==
    LET pushed == push_overlay(s, overlay)
        popped == pop_overlay(pushed, s.next_id)
    IN  /\ pop_result(pushed, s.next_id) = overlay
        /\ popped = [s EXCEPT !.next_id = @ + 1]
        /\ pop_result(popped, s.next_id) = NoLayer
        /\ pop_overlay(popped, s.next_id) = popped

\* C23: push followed by pop is a round trip on every reachable stack, for
\* push_layer / pop_layer and for push_overlay / pop_overlay.
C23_PushPopRoundTrip ==
    ~panicked => (LayerRoundTrip(layer_stack, new_layer) /\ OverlayRoundTrip(layer_stack, new_layer))

C25_UnmappedKeyDropped ==
    [][ (pc = "loop" /\ is_some(state) /\ last'.op = "KeyboardInput")
            => IF winit_event'.logical_key = "Unidentified"
               THEN event' = NoEvent /\ host_calls' = << >> /\ pc' = "loop"
               ELSE /\ event'.type = IF winit_event'.state = "Pressed"
                                     THEN "KeyPressed" ELSE "KeyReleased"
                    /\ event'.key = winit_event'.logical_key ]_vars

\* C26: the runner converts a line-delta scroll (x, y) to a MouseScrolled
\* event with offsets (2x, 2y) and a pixel-delta scroll (x, y) to a
\* MouseScrolled event with offsets (x, y); both have the same two offset
\* fields and nothing else.
C26_ScrollNormalized ==
    [][ (pc = "loop" /\ is_some(state) /\ last'.op = "MouseWheel")
            => /\ event'.type = "MouseScrolled"
               /\ DOMAIN event' = {"type", "x_offset", "y_offset"}
               /\ IF winit_event'.delta = "LineDelta"
                  THEN event'.x_offset = 2 * winit_event'.x /\ event'.y_offset = 2 * winit_event'.y
                  ELSE event'.x_offset = winit_event'.x /\ event'.y_offset = winit_event'.y ]_vars

\* Witness of C26: LineDelta(1, -1) went through the stack as
\* MouseScrolled { 2, -2 }.
C26_Witness ==
    /\ DispatchDone /\ is_some(state)
    /\ winit_event = [kind |-> "MouseWheel", delta |-> "LineDelta", x |-> 1, y |-> -1]
    /\ event = [type |-> "MouseScrolled", x_offset |-> 2, y_offset |-> -2]
    /\ Len(event_calls) >= 1

\* The Event variants that correspond to a notification kind
variants_of(kind) ==
    CASE kind = "CloseRequested" -> {"WindowClose"}
      [] kind = "Resized" -> {"WindowResize"}
      [] kind = "Focused" -> {"WindowFocus", "WindowLostFocus"}
      [] kind = "Moved" -> {"WindowMoved"}
      [] kind = "KeyboardInput" -> {"KeyPressed", "KeyReleased"}
      [] kind = "MouseInput" -> {"MouseButtonPressed", "MouseButtonReleased"}
      [] kind = "CursorMoved" -> {"MouseMoved"}
      [] kind = "MouseWheel" -> {"MouseScrolled"}
      [] OTHER -> {}

\* C27: every notification of the collaborator's kinds (close, resize, focus,
\* move, keyboard, mouse button, cursor move, scroll, ...) is converted to
\* its Event variant and dispatched: the Application hook is called with it
\* and the stack walk follows; the runner drops none of them.
C27_EveryKindDispatched ==
    [][ (pc = "loop" /\ is_some(state) /\ last'.op # "RedrawRequested"
             /\ last'.op \in { w.kind : w \in WindowEvents })
            => /\ event'.type \in variants_of(last'.op)
               /\ Len(host_calls') = 1
               /\ pc' = IF application = "custom" THEN "hook" ELSE after_hook(layer_stack) ]_vars

\* C28: after any sequence of push_layer, push_overlay, pop_layer and
\* pop_overlay calls, 0 <= layer_insert <= len() holds, pop_layer has not
\* subtracted from a layer_insert of 0 (no overflow panic, no wrapped value)
\* and push_layer has not inserted beyond the length (no panic).
C28_BoundaryInRange ==
    /\ 0 <= layer_stack.layer_insert
    /\ layer_stack.layer_insert <= len(layer_stack)
    /\ last.op \in {"push_layer", "pop_layer"} => ~panicked

\* The operations of EventContext that call a layer hook
ContextOps == { "EventContext::push_layer", "EventContext::push_overlay",
                "EventContext::pop_layer", "EventContext::pop_overlay" }

\* C29: a layer hook cannot change the stack. The entries, layer_insert and
\* next_id are the same after an on_event call as before it; an on_attach or
\* on_detach made by an EventContext runs on the stack as it was before the
\* call and the stack afterwards differs from that only by the EventContext's
\* own LayerStack call; and the stack changes only in layer_setup and in a
\* host hook, never during the walk or between notifications.
C29_LayerHooksLeaveStack ==
    [][ /\ last'.op = "on_event" => layer_stack' = layer_stack
        /\ last'.op \in ContextOps =>
              /\ hook_saw'.layer = last'.layer
              /\ hook_saw'.layer_stack = layer_stack
              /\ layer_stack' \in { layer_stack,
                                   push_layer(layer_stack, last'.layer),
                                   push_overlay(layer_stack, last'.layer) }
        /\ layer_stack' # layer_stack => pc \in {"setup", "hook"} ]_vars

\* Witness of C29: the third entry of a stack of three has returned from
\* on_event, all three entries still in place.
C29_Witness ==
    /\ last.op = "on_event" /\ Len(event_calls) = 3
    /\ len(layer_stack) = 3 /\ event_calls = StackLayers

\* C30: while EventContext::push_layer or push_overlay runs the pushed
\* layer's on_attach, the layer is not in the stack: the stack on_attach runs
\* on is the stack from before the push, which holds neither the layer nor
\* the id it is about to get; the entry is there when the call returns.
C30_AttachBeforeInsert ==
    [][ last'.op \in {"EventContext::push_layer", "EventContext::push_overlay"}
            => /\ hook_saw' = Saw("on_attach", last'.layer, layer_stack)
               /\ \A i \in 1..len(layer_stack) : layer_stack.layers[i].layer # last'.layer
               /\ find(layer_stack, layer_stack.next_id) = -1
               /\ ~panicked' =>
                     /\ last'.ret = layer_stack.next_id
                     /\ pop_result(layer_stack', last'.ret) = last'.layer
                     /\ len(layer_stack') = len(layer_stack) + 1 ]_vars

\* Witness of C30: a host hook pushed an overlay onto a stack of two; its
\* on_attach ran on the two, the stack holds three now.
C30_Witness ==
    /\ last.op = "EventContext::push_overlay" /\ ~panicked
    /\ hook_saw.hook = "on_attach" /\ hook_saw.layer = last.layer
    /\ len(hook_saw.layer_stack) = 2 /\ len(layer_stack) = 3
    /\ attach_calls[last.layer] = 1

\* C31: a window notification delivered while Context.state is None (before
\* the first resumed) is discarded: the call converts nothing (no Event is
\* built), invokes no Application hook, no on_event and no on_update, touches
\* the surface not at all, starts no walk and leaves the state None.
C31_DiscardedBeforeResumed ==
    [][ (is_none(state) /\ last'.op \in { w.kind : w \in WindowEvents })
        => /\ is_none(state')
           /\ event' = NoEvent /\ host_calls' = << >> /\ event_calls' = << >>
           /\ update_calls' = << >> /\ frame' = NoFrame
           /\ pc' = "loop" /\ ~exit_requested' /\ ~panicked'
           /\ UNCHANGED << layer_stack, attach_calls, detach_calls >> ]_vars

\* A close, redraw or resize notification was delivered to a context whose
\* stack holds a layer and whose state is still None.
C31_Witness ==
    /\ is_none(state) /\ pc = "loop" /\ len(layer_stack) > 0
    /\ winit_event.kind \in {"CloseRequested", "RedrawRequested", "Resized"}
    /\ last.op = winit_event.kind

\* C32: a redraw notification is never delivered as an event. The call that
\* handles RedrawRequested builds no Event, invokes no Application hook and no
\* on_event and starts neither a hook nor a walk; and until the next
\* notification arrives no layer receives on_event, so no layer observes or
\* consumes the redraw through on_event.
C32_RedrawNotAnEvent ==
    [][ /\ last'.op = "RedrawRequested"
           => /\ event' = NoEvent /\ host_calls' = << >> /\ event_calls' = << >>
              /\ ~handled' /\ pc' = "loop"
        /\ winit_event.kind = "RedrawRequested"
           => /\ last'.op \notin {"on_event"} \cup ContextOps
              /\ winit_event'.kind = "RedrawRequested"
                 => /\ event' = NoEvent /\ host_calls' = << >> /\ event_calls' = << >>
                    /\ pc' \in {"loop", "exited"} ]_vars

\* A redraw was delivered to a created window whose stack holds an entry, and
\* the frame was rendered and presented.
C32_Witness ==
    /\ winit_event.kind = "RedrawRequested" /\ last.op = "RedrawRequested"
    /\ is_some(state) /\ len(layer_stack) > 0
    /\ frame.texture = "Ok" /\ frame.present = 1

\* The size a notification or an event carries, as a configuration size
size_of(r) == [width |-> r.width, height |-> r.height]

\* C33: the surface configuration follows the resize notifications. A Resized
\* delivered to a created window writes its width and height into the stored
\* configuration, configures the surface once and requests one redraw, all
\* in the step that first offers the window-resize event to the Application
\* hook, so that hook and every on_event of the walk run with the new
\* configuration in place; resumed sets the configuration to the default one
\* of the window it creates; nothing else changes the configuration, whatever
\* the hook and the layers do, so it always is the one of the most recent
\* resize, or the initial one.
C33_ConfigFollowsResize ==
    [][ /\ (last'.op = "Resized" /\ is_some(state))
           => /\ state'[1].config = size_of(winit_event')
              /\ frame'.configure = 1 /\ frame'.request_redraw = 1
              /\ event' = [type |-> "WindowResize", width |-> winit_event'.width,
                                                    height |-> winit_event'.height]
              /\ host_calls' = << [hook |-> "on_window_resize", event |-> event'] >>
              /\ event_calls' = << >>
        /\ (pc' \in {"hook", "walk"} /\ event'.type = "WindowResize")
           => state'[1].config = size_of(event')
        /\ last'.op = "resumed"
           => state'[1].config \in { default_config(window) : window \in Windows }
        /\ (last'.op \notin {"Resized", "resumed"} \/ (last'.op = "Resized" /\ is_none(state)))
           => UNCHANGED state ]_vars

\* A resize to 640 x 480 reached a custom Application on a stack that entries
\* were removed from, a layer then consumed the event, and the configuration
\* is 640 x 480.
C33_Witness ==
    /\ application = "custom" /\ event.type = "WindowResize" /\ handled
    /\ last.op = "on_event" /\ Len(issued) > len(layer_stack)
    /\ winit_event = [kind |-> "Resized", width |-> 640, height |-> 480]
    /\ state[1].config = [width |-> 640, height |-> 480]

====
